---------------------------- MODULE Spec2Model ----------------------------
(***************************************************************************)
(* State-machine model of the retrieval pipeline of TrustVoice Analytics   *)
(* (src/src/rag_pipeline.py): one RAGPipeline object working against the   *)
(* persistent ChromaDB collection "financial_complaints".                  *)
(*                                                                         *)
(* Texts are strings, data frames are (columns, rows) with rows aligned to *)
(* the columns, embeddings are small integer vectors, distances and scores *)
(* are integers (the arithmetic 1 - distance is kept exact).               *)
(***************************************************************************)
EXTENDS Integers, Sequences, FiniteSets, TLC

VARIABLES
    disk,   \* the persistent collection at CHROMA_DB_PATH / CHROMA_COLLECTION_NAME
    self,   \* the fields of the RAGPipeline object
    last,   \* the most recent call on the pipeline: arguments, pre-state, outcome
    session, \* st.session_state of the chat page: chat_history, last_answer, last_sources
    model_loads \* how often SentenceTransformer(EMBEDDING_MODEL) has loaded the model in this process

vars == <<disk, self, last, session, model_loads>>

-----------------------------------------------------------------------------
(* Bounds and program constants                                            *)

\* largest explicit top_k a caller passes
MaxTopK == 3
\* longest embeddings array a caller hands to build_vector_store directly
MaxEmb == 3
\* model loads are counted up to this number
MaxLoads == 2

DEFAULT_TOP_K == 5

-----------------------------------------------------------------------------
(* Sequence helpers                                                        *)

Range(s) == {s[i] : i \in DOMAIN s}

Min(a, b) == IF a <= b THEN a ELSE b

\* index of the first occurrence of x in s, 0 when absent (list.index / "in")
IndexOf(s, x) ==
    IF \E i \in DOMAIN s : s[i] = x
    THEN CHOOSE i \in DOMAIN s : s[i] = x /\ \A j \in 1..(i - 1) : s[j] # x
    ELSE 0

\* the subsequence of s at the positions satisfying Keep, in order
RECURSIVE SelectIdx(_, _, _)
SelectIdx(s, keep, i) ==
    IF i > Len(s) THEN <<>>
    ELSE IF i \in keep THEN <<s[i]>> \o SelectIdx(s, keep, i + 1)
    ELSE SelectIdx(s, keep, i + 1)

-----------------------------------------------------------------------------
(* pandas data frames                                                      *)

\* a missing cell, as read_csv produces for an empty field
NaN == "<NaN>"

DataFrame(cols, rows) == [none |-> FALSE, columns |-> cols, rows |-> rows]

\* pd.DataFrame()
EmptyDataFrame == DataFrame(<<>>, <<>>)

\* the value None of the attribute complaints_data
NoData == [none |-> TRUE, columns |-> <<>>, rows |-> <<>>]

\* DataFrame.empty: some axis has length 0
IsEmpty(df) == Len(df.columns) = 0 \/ Len(df.rows) = 0

HasColumn(df, c) == c \in Range(df.columns)

\* df[c].tolist()
Column(df, c) == [i \in DOMAIN df.rows |-> df.rows[i][IndexOf(df.columns, c)]]

\* df[c] = values: replaces the column when it exists, appends it otherwise
SetColumn(df, c, values) ==
    IF HasColumn(df, c)
    THEN DataFrame(df.columns,
                   [i \in DOMAIN df.rows |->
                       [df.rows[i] EXCEPT ![IndexOf(df.columns, c)] = values[i]]])
    ELSE DataFrame(Append(df.columns, c),
                   [i \in DOMAIN df.rows |-> Append(df.rows[i], values[i])])

\* df.drop_duplicates(): keeps the first of every group of equal rows
\* (a missing cell equals a missing cell)
drop_duplicates(df) ==
    DataFrame(df.columns,
              SelectIdx(df.rows,
                        {i \in DOMAIN df.rows :
                            \A j \in 1..(i - 1) : df.rows[j] # df.rows[i]},
                        1))

\* df.fillna("")
fillna(df) ==
    DataFrame(df.columns,
              [i \in DOMAIN df.rows |->
                  [j \in DOMAIN df.rows[i] |->
                      IF df.rows[i][j] = NaN THEN "" ELSE df.rows[i][j]]])

\* str(v) of a cell: text stays as it is, a missing cell prints as "nan"
Str(v) == IF v = NaN THEN "nan" ELSE v

\* df[col].astype(str) over every object column
astype_str(df) ==
    DataFrame(df.columns,
              [i \in DOMAIN df.rows |->
                  [j \in DOMAIN df.rows[i] |-> Str(df.rows[i][j])]])

\* ' '.join(values)
RECURSIVE Join(_)
Join(values) ==
    IF Len(values) = 0 THEN ""
    ELSE IF Len(values) = 1 THEN values[1]
    ELSE values[1] \o " " \o Join(Tail(values))

\* df.to_dict('records')[i]
RowDict(df, i) ==
    [c \in Range(df.columns) |-> df.rows[i][IndexOf(df.columns, c)]]

-----------------------------------------------------------------------------
(* The CSV files the data directory can hold                               *)

NarrativeCsv ==
    DataFrame(<<"consumer_complaint_narrative", "company">>,
              << <<"card was charged twice", "Bank A">>,
                 <<"mortgage payment not applied", "Bank B">> >>)

FieldsCsv ==
    DataFrame(<<"product", "company">>,
              << <<"Credit Card", "Bank A">>,
                 <<NaN, "Bank B">>,
                 <<"Credit Card", "Bank A">>,
                 <<"Mortgage", "Bank C">> >>)

OtherCsv ==
    DataFrame(<<"state">>, << <<"CA">> >>)

HeaderOnlyCsv ==
    DataFrame(<<"company">>, <<>>)

CsvFiles == {NarrativeCsv, FieldsCsv, OtherCsv, HeaderOnlyCsv}

-----------------------------------------------------------------------------
(* The embedding model (SentenceTransformer) and the ChromaDB collection   *)

\* SentenceTransformer.encode of one text: a unit vector, the same for the
\* same text
Encode(text) ==
    CASE text \in {"card was charged twice", "duplicate card charge",
                   "Bank A Credit Card"} -> <<1, 0>>
      [] text \in {"mortgage payment not applied", "Bank B "} -> <<-1, 0>>
      [] OTHER -> <<0, 1>>

\* the queries a caller submits
Queries == {"duplicate card charge", "What is the capital of France?"}

\* the vector a caller fills a hand-made embeddings array with
FillVector == <<0, 1>>

Dot(a, b) == a[1] * b[1] + a[2] * b[2]

\* distance of two unit vectors under the collection's metric: squared
\* euclidean distance ("l2", what a collection created without hnsw:space
\* uses) or cosine distance
Distance(metric, a, b) ==
    IF metric = "cosine" THEN 1 - Dot(a, b)
    ELSE (a[1] - b[1]) * (a[1] - b[1]) + (a[2] - b[2]) * (a[2] - b[2])

\* no collection of that name at the path
NoCollection == [exists |-> FALSE, metric |-> "l2", entries |-> <<>>]

\* chroma_client.create_collection(name, metadata={"description": ...})
create_collection == [exists |-> TRUE, metric |-> "l2", entries |-> <<>>]

\* collection.count()
count(d) == Len(d.entries)

StoredIds(d) == {d.entries[i].id : i \in DOMAIN d.entries}

\* collection.add: an id already stored is skipped, the other entries are
\* appended in the order given
collection_add(d, entries) ==
    [d EXCEPT !.entries =
        @ \o SelectIdx(entries,
                       {i \in DOMAIN entries : entries[i].id \notin StoredIds(d)},
                       1)]

\* the position of the entry nearest to q among the positions in left, the
\* earliest stored one among equally near ones
Nearest(d, q, left) ==
    CHOOSE i \in left :
        \A j \in left :
            \/ Distance(d.metric, q, d.entries[i].embedding)
                   < Distance(d.metric, q, d.entries[j].embedding)
            \/ /\ Distance(d.metric, q, d.entries[i].embedding)
                      = Distance(d.metric, q, d.entries[j].embedding)
               /\ i <= j

RECURSIVE NearestFirst(_, _, _, _)
NearestFirst(d, q, left, n) ==
    IF n = 0 \/ left = {} THEN <<>>
    ELSE LET i == Nearest(d, q, left)
         IN  <<[id |-> d.entries[i].id,
                metadata |-> d.entries[i].metadata,
                document |-> d.entries[i].document,
                distance |-> Distance(d.metric, q, d.entries[i].embedding)]>>
             \o NearestFirst(d, q, left \ {i}, n - 1)

\* collection.query(query_embeddings=[q], n_results=n, include=[metadatas,
\* documents, distances]): the min(n, count) nearest entries by ascending
\* distance
collection_query(d, q, n) ==
    NearestFirst(d, q, DOMAIN d.entries, Min(n, count(d)))

-----------------------------------------------------------------------------
(* RAGPipeline: construction                                               *)

\* _initialize_chroma_client as a plain get-or-create, whatever
\* use_existing_vector_store says
initialize_get_or_create(s, d, clientFails) ==
    IF clientFails
    THEN [self |-> [s EXCEPT !.chroma_client = FALSE, !.collection = FALSE],
          disk |-> d]
    ELSE [self |-> [s EXCEPT !.chroma_client = TRUE, !.collection = TRUE],
          disk |-> IF d.exists THEN d ELSE create_collection]

\* _initialize_chroma_client: opens the collection when it exists; when it
\* does not, creates it only if use_existing_vector_store is False.  A
\* failing PersistentClient leaves client and collection None.
_initialize_chroma_client(s, d, clientFails) ==
    IF clientFails
    THEN [self |-> [s EXCEPT !.chroma_client = FALSE, !.collection = FALSE],
          disk |-> d]
    ELSE IF d.exists
    THEN [self |-> [s EXCEPT !.chroma_client = TRUE, !.collection = TRUE],
          disk |-> d]
    ELSE IF ~s.use_existing_vector_store
    THEN [self |-> [s EXCEPT !.chroma_client = TRUE, !.collection = TRUE],
          disk |-> create_collection]
    ELSE [self |-> [s EXCEPT !.chroma_client = TRUE, !.collection = FALSE],
          disk |-> d]

\* _initialize_embedding_model: embedding_model is None when loading fails
_initialize_embedding_model(s, modelFails) ==
    [s EXCEPT !.embedding_model = ~modelFails]

\* the count of model loads after the construction of pipeline s: the
\* SentenceTransformer constructor has run once more when it did not fail
LoadsAfter(n, s) == IF s.embedding_model THEN Min(n + 1, MaxLoads) ELSE n

\* RAGPipeline.__init__(use_existing_vector_store)
__init__(d, use_existing, clientFails, modelFails) ==
    LET s0 == [use_existing_vector_store |-> use_existing,
               chroma_client |-> FALSE,
               collection |-> FALSE,
               embedding_model |-> FALSE,
               complaints_data |-> NoData]
        c  == _initialize_chroma_client(s0, d, clientFails)
    IN  [self |-> _initialize_embedding_model(c.self, modelFails),
         disk |-> c.disk]

-----------------------------------------------------------------------------
(* RAGPipeline: the build path                                             *)

\* load_data storing the empty frame it returns when the read fails
load_data_storing_empty(s, csv, readFails) ==
    IF readFails
    THEN [self |-> [s EXCEPT !.complaints_data = EmptyDataFrame],
          frame |-> EmptyDataFrame, raised |-> FALSE]
    ELSE [self |-> [s EXCEPT !.complaints_data = csv], frame |-> csv,
          raised |-> FALSE]

\* load_data: a failing read (or no CSV file) returns an empty frame and
\* leaves complaints_data alone; nothing is raised either way
load_data(s, csv, readFails) ==
    IF readFails
    THEN [self |-> s, frame |-> EmptyDataFrame, raised |-> FALSE]
    ELSE [self |-> [s EXCEPT !.complaints_data = csv], frame |-> csv,
          raised |-> FALSE]

\* combined_text with the company/product/issue fields tried before the
\* narrative column
combined_text_fields_first(df) ==
    LET available_fields ==
            SelectSeq(<<"company", "product", "issue">>,
                      LAMBDA f : HasColumn(df, f))
    IN  IF Len(available_fields) > 0
        THEN [i \in DOMAIN df.rows |->
                 Join([k \in DOMAIN available_fields |->
                          Str(df.rows[i][IndexOf(df.columns,
                                                 available_fields[k])])])]
        ELSE IF HasColumn(df, "consumer_complaint_narrative")
        THEN Column(df, "consumer_complaint_narrative")
        ELSE [i \in DOMAIN df.rows |-> Str(df.rows[i][1])]

\* combined_text joined from every column of the frame, whatever its name
combined_text_all_columns(df) ==
    [i \in DOMAIN df.rows |->
        Join([k \in DOMAIN df.columns |-> Str(df.rows[i][k])])]

\* the combined_text column of preprocess_data
combined_text(df) ==
    IF HasColumn(df, "consumer_complaint_narrative")
    THEN Column(df, "consumer_complaint_narrative")
    ELSE LET available_fields ==
                 SelectSeq(<<"company", "product", "issue">>,
                           LAMBDA f : HasColumn(df, f))
         IN  IF Len(available_fields) > 0
             THEN [i \in DOMAIN df.rows |->
                      Join([k \in DOMAIN available_fields |->
                               Str(df.rows[i][IndexOf(df.columns,
                                                      available_fields[k])])])]
             ELSE [i \in DOMAIN df.rows |-> Str(df.rows[i][1])]

\* preprocess_data without the drop_duplicates step
preprocess_keeping_duplicates(s) ==
    IF s.complaints_data.none \/ IsEmpty(s.complaints_data)
    THEN [self |-> s, frame |-> EmptyDataFrame, raised |-> FALSE]
    ELSE LET df0 == astype_str(fillna(s.complaints_data))
             df  == SetColumn(df0, "combined_text", combined_text(df0))
         IN  [self |-> [s EXCEPT !.complaints_data = df], frame |-> df,
              raised |-> FALSE]

\* preprocess_data storing the empty frame it returns when nothing is loaded
preprocess_storing_empty(s) ==
    IF s.complaints_data.none \/ IsEmpty(s.complaints_data)
    THEN [self |-> [s EXCEPT !.complaints_data = EmptyDataFrame],
          frame |-> EmptyDataFrame, raised |-> FALSE]
    ELSE LET df0 == astype_str(fillna(drop_duplicates(s.complaints_data)))
             df  == SetColumn(df0, "combined_text", combined_text(df0))
         IN  [self |-> [s EXCEPT !.complaints_data = df], frame |-> df,
              raised |-> FALSE]

\* preprocess_data: an empty frame, and no change, when nothing is loaded;
\* otherwise duplicates dropped, missing cells filled, cells turned to text
\* and combined_text set, on a copy that replaces complaints_data
preprocess_data(s) ==
    IF s.complaints_data.none \/ IsEmpty(s.complaints_data)
    THEN [self |-> s, frame |-> EmptyDataFrame, raised |-> FALSE]
    ELSE LET df0 == astype_str(fillna(drop_duplicates(s.complaints_data)))
             df  == SetColumn(df0, "combined_text", combined_text(df0))
         IN  [self |-> [s EXCEPT !.complaints_data = df], frame |-> df,
              raised |-> FALSE]

\* create_embeddings(text_column): np.array([]) when the model is not
\* loaded, no data is loaded or the column is missing
create_embeddings(s, text_column) ==
    IF ~s.embedding_model THEN [embeddings |-> <<>>, raised |-> FALSE]
    ELSE IF s.complaints_data.none \/ IsEmpty(s.complaints_data)
    THEN [embeddings |-> <<>>, raised |-> FALSE]
    ELSE IF ~HasColumn(s.complaints_data, text_column)
    THEN [embeddings |-> <<>>, raised |-> FALSE]
    ELSE LET texts == Column(s.complaints_data, text_column)
         IN  [embeddings |-> [i \in DOMAIN texts |-> Encode(texts[i])],
              raised |-> FALSE]

\* the entries build_vector_store hands to collection.add
BuildEntries(s, embeddings) ==
    LET texts == Column(s.complaints_data, "combined_text")
    IN  [i \in DOMAIN texts |->
            [id |-> i - 1,
             embedding |-> embeddings[i],
             document |-> texts[i],
             metadata |-> RowDict(s.complaints_data, i)]]

\* build_vector_store(embeddings): False without a collection or without
\* embeddings, and whenever preparing or adding the entries raises
\* (no data or no combined_text column, arrays of unequal length, an add
\* that fails).  What collection.add does with an id it already holds is
\* the installed store's choice: it skips the entry and returns normally,
\* or (dupRaises) it raises and adds nothing.
build_vector_store(s, d, embeddings, addFails, dupRaises) ==
    IF ~s.collection THEN [ok |-> FALSE, disk |-> d]
    ELSE IF Len(embeddings) = 0 THEN [ok |-> FALSE, disk |-> d]
    ELSE IF s.complaints_data.none
            \/ ~HasColumn(s.complaints_data, "combined_text")
    THEN [ok |-> FALSE, disk |-> d]
    ELSE IF Len(embeddings) # Len(s.complaints_data.rows) \/ addFails
    THEN [ok |-> FALSE, disk |-> d]
    ELSE LET entries == BuildEntries(s, embeddings)
         IN  IF dupRaises /\ \E i \in DOMAIN entries :
                                 entries[i].id \in StoredIds(d)
             THEN [ok |-> FALSE, disk |-> d]
             ELSE [ok |-> TRUE, disk |-> collection_add(d, entries)]

-----------------------------------------------------------------------------
(* RAGPipeline: the query path                                             *)

\* the explicit top_k values a caller passes, and top_k=None
TopKArgs ==
    {[none |-> TRUE, value |-> DEFAULT_TOP_K]}
        \cup {[none |-> FALSE, value |-> k] : k \in (-1)..MaxTopK}

\* the distance handed on as the score, without the conversion
similarity_score_unconverted(distance) == distance

\* "Convert distance to similarity"
similarity_score(distance) == 1 - distance

\* complaint_info: a copy of the stored metadata with the keys
\* similarity_score and document set
complaint_info(hit) ==
    [k \in DOMAIN hit.metadata \cup {"similarity_score", "document"} |->
        IF k = "similarity_score" THEN similarity_score(hit.distance)
        ELSE IF k = "document" THEN hit.document
        ELSE hit.metadata[k]]

\* the outcome of a search: the list returned, whether an exception left the
\* call, whether the query was embedded, whether collection.query was
\* invoked, and what it returned
SearchOutcome(results, raised, embedded, queried, hits) ==
    [results |-> results, raised |-> raised, embedded |-> embedded,
     queried |-> queried, hits |-> hits]

\* search_similar_complaints with the top_k argument ignored: the query always
\* asks for DEFAULT_TOP_K results
search_ignoring_top_k(s, d, query, top_k, queryFails) ==
    IF ~s.collection THEN SearchOutcome(<<>>, FALSE, FALSE, FALSE, <<>>)
    ELSE IF ~s.embedding_model
    THEN SearchOutcome(<<>>, FALSE, FALSE, FALSE, <<>>)
    ELSE IF queryFails
    THEN SearchOutcome(<<>>, FALSE, TRUE, TRUE, <<>>)
    ELSE LET hits == collection_query(d, Encode(query), DEFAULT_TOP_K)
         IN  SearchOutcome([i \in DOMAIN hits |-> complaint_info(hits[i])],
                           FALSE, TRUE, TRUE, hits)

\* search_similar_complaints with the query embedded before the try block: a
\* missing embedding model raises out of the call
search_encode_outside_try(s, d, query, top_k, queryFails) ==
    IF ~s.collection THEN SearchOutcome(<<>>, FALSE, FALSE, FALSE, <<>>)
    ELSE LET k == IF top_k.none THEN DEFAULT_TOP_K ELSE top_k.value
         IN  IF ~s.embedding_model
             THEN SearchOutcome(<<>>, TRUE, FALSE, FALSE, <<>>)
             ELSE IF queryFails \/ k < 1
             THEN SearchOutcome(<<>>, FALSE, TRUE, TRUE, <<>>)
             ELSE LET hits == collection_query(d, Encode(query), k)
                  IN  SearchOutcome([i \in DOMAIN hits |-> complaint_info(hits[i])],
                                    FALSE, TRUE, TRUE, hits)

\* search_similar_complaints whose except clause logs and raises again
search_reraising(s, d, query, top_k, queryFails) ==
    IF ~s.collection THEN SearchOutcome(<<>>, FALSE, FALSE, FALSE, <<>>)
    ELSE LET k == IF top_k.none THEN DEFAULT_TOP_K ELSE top_k.value
         IN  IF ~s.embedding_model
             THEN SearchOutcome(<<>>, TRUE, FALSE, FALSE, <<>>)
             ELSE IF queryFails \/ k < 1
             THEN SearchOutcome(<<>>, TRUE, TRUE, TRUE, <<>>)
             ELSE LET hits == collection_query(d, Encode(query), k)
                  IN  SearchOutcome([i \in DOMAIN hits |-> complaint_info(hits[i])],
                                    FALSE, TRUE, TRUE, hits)

\* search_similar_complaints(query, top_k): [] without a collection; any
\* exception of the embedding (no model loaded) or of the query (a failing
\* store, n_results < 1) is caught and gives []
search_similar_complaints(s, d, query, top_k, queryFails) ==
    IF ~s.collection THEN SearchOutcome(<<>>, FALSE, FALSE, FALSE, <<>>)
    ELSE LET k == IF top_k.none THEN DEFAULT_TOP_K ELSE top_k.value
         IN  IF ~s.embedding_model
             THEN SearchOutcome(<<>>, FALSE, FALSE, FALSE, <<>>)
             ELSE IF queryFails \/ k < 1
             THEN SearchOutcome(<<>>, FALSE, TRUE, TRUE, <<>>)
             ELSE LET hits == collection_query(d, Encode(query), k)
                  IN  SearchOutcome([i \in DOMAIN hits |-> complaint_info(hits[i])],
                                    FALSE, TRUE, TRUE, hits)

\* the keys similarity_score and document set on the mapping the query
\* returned, not on a copy of it
metadata_written_in_place(hit) == complaint_info(hit)

\* the metadata mapping of a hit once the loop body has run: complaint_info
\* is metadata.copy(), so the two keys are set on the copy and the mapping
\* itself is as the query returned it
metadata_after_search(hit) == hit.metadata

\* the collection after search_similar_complaints: collection.query only
\* reads; were the mappings it returned the stored ones, each entry returned
\* would hold its mapping as the loop left it
collection_after_search(d, hits) ==
    [d EXCEPT !.entries =
        [i \in DOMAIN @ |->
            IF \E h \in DOMAIN hits : hits[h].id = @[i].id
            THEN LET h == CHOOSE h \in DOMAIN hits : hits[h].id = @[i].id
                 IN  [@[i] EXCEPT !.metadata = metadata_after_search(hits[h])]
            ELSE @[i]]]

-----------------------------------------------------------------------------
(* RAGPipeline: run_pipeline                                               *)

\* run_pipeline building the store whatever use_existing_vector_store says
run_pipeline_always_building(s, d, csv, readFails, addFails, dupRaises) ==
    LET l == load_data(s, csv, readFails)
        p == preprocess_data(l.self)
        e == create_embeddings(p.self, "combined_text")
        b == build_vector_store(p.self, d, e.embeddings, addFails, dupRaises)
    IN  [self |-> p.self, disk |-> b.disk, ok |-> b.ok,
         embeddings |-> e.embeddings,
         calls |-> <<"load_data", "preprocess_data",
                     "create_embeddings", "build_vector_store">>]

\* run_pipeline(data_path): load_data, preprocess_data and, only when
\* use_existing_vector_store is False, create_embeddings() and
\* build_vector_store; False when the build returns False, True otherwise.
\* calls lists the methods invoked, in order.
run_pipeline(s, d, csv, readFails, addFails, dupRaises) ==
    LET l == load_data(s, csv, readFails)
        p == preprocess_data(l.self)
    IN  IF ~p.self.use_existing_vector_store
        THEN LET e == create_embeddings(p.self, "combined_text")
                 b == build_vector_store(p.self, d, e.embeddings,
                                         addFails, dupRaises)
             IN  [self |-> p.self, disk |-> b.disk, ok |-> b.ok,
                  embeddings |-> e.embeddings,
                  calls |-> <<"load_data", "preprocess_data",
                              "create_embeddings", "build_vector_store">>]
        ELSE [self |-> p.self, disk |-> d, ok |-> TRUE,
              embeddings |-> <<>>,
              calls |-> <<"load_data", "preprocess_data">>]

-----------------------------------------------------------------------------
(* The chat page (show_rag_search of app.py)                               *)

\* the session state show_rag_search sets up on its first run
InitialSession == [chat_history |-> <<>>, last_answer |-> "", last_sources |-> <<>>]

\* what the user can type into the question field
UserQueries == Queries \cup {"", "  "}

\* user_query.strip(): the typed questions carry no outer blanks, a question
\* of blanks only strips to the empty string
strip(text) == IF text \in {"", " ", "  "} THEN "" ELSE text

\* the outcome of one run of the page: the new session state, whether an
\* exception left the handler, the sources retrieved, the answer obtained,
\* whether a pipeline was constructed, whether text generation ran and
\* whether st.warning was called
PageOutcome(sess, raised, sources, answer, constructed, generated, warned) ==
    [session |-> sess, raised |-> raised, sources |-> sources,
     answer |-> answer, constructed |-> constructed, generated |-> generated,
     warned |-> warned]

\* pipeline.generate_answer_with_llm(user_query, top_k=5): RAGPipeline
\* defines no method of that name, so the attribute lookup raises
\* AttributeError before anything is generated
generate_answer_with_llm(p, d, query, top_k) ==
    [raised |-> TRUE, answer |-> "", generated |-> FALSE]

\* one run of show_rag_search with the button pressed ("ask", "clear" or
\* none): Clear empties the three session keys; Ask with a non-blank
\* question constructs a pipeline with the default arguments, searches with
\* top_k=5, stores the sources, asks for the answer, stores it and appends
\* the exchange to chat_history; anything else (no button, or Ask with a
\* blank question) falls through both ifs.  No branch calls st.warning.
show_rag_search(sess, d, button, user_query, clientFails, modelFails, queryFails) ==
    IF button = "clear"
    THEN PageOutcome(InitialSession, FALSE, <<>>, "", FALSE, FALSE, FALSE)
    ELSE IF button = "ask" /\ strip(user_query) # ""
    THEN LET pipeline == __init__(d, TRUE, clientFails, modelFails).self
             top_k    == [none |-> FALSE, value |-> 5]
             sources  == search_similar_complaints(pipeline, d, user_query,
                                                   top_k, queryFails).results
             sess1    == [sess EXCEPT !.last_sources = sources]
             a        == generate_answer_with_llm(pipeline, d, user_query, top_k)
         IN  IF a.raised
             THEN PageOutcome(sess1, TRUE, sources, "", TRUE, a.generated, FALSE)
             ELSE PageOutcome(
                      [sess1 EXCEPT
                          !.last_answer = a.answer,
                          !.chat_history =
                              Append(@, [question |-> user_query,
                                         answer |-> a.answer,
                                         sources |-> sources])],
                      FALSE, sources, a.answer, TRUE, a.generated, FALSE)
    ELSE PageOutcome(sess, FALSE, <<>>, "", FALSE, FALSE, FALSE)

-----------------------------------------------------------------------------
(* The state machine                                                       *)

\* the record of a call: what was called, with what, on what, and what came
\* back
Call(op, preSelf, preDisk) ==
    [op |-> op, preSelf |-> preSelf, preDisk |-> preDisk,
     use_existing |-> FALSE, clientFails |-> FALSE, modelFails |-> FALSE,
     query |-> "", top_k |-> [none |-> TRUE, value |-> DEFAULT_TOP_K],
     queryFails |-> FALSE,
     results |-> <<>>, raised |-> FALSE, embedded |-> FALSE,
     queried |-> FALSE, hits |-> <<>>,
     frame |-> EmptyDataFrame, embeddings |-> <<>>, ok |-> FALSE,
     dupRaises |-> FALSE,
     csv |-> EmptyDataFrame, readFails |-> FALSE, text_column |-> "",
     calls |-> <<>>,
     button |-> "", answer |-> "", generated |-> FALSE,
     constructed |-> FALSE, warned |-> FALSE,
     preSession |-> InitialSession]

\* a collection built earlier from the preprocessed NarrativeCsv, with the
\* cosine metric
PrebuiltCollection ==
    LET s == [complaints_data |-> NarrativeCsv, embedding_model |-> TRUE]
        p == preprocess_data(s).self
    IN  [exists |-> TRUE, metric |-> "cosine",
         entries |-> BuildEntries(p, create_embeddings(p, "combined_text").embeddings)]

\* what the path can hold before the first pipeline is constructed
InitialDisks == {NoCollection, PrebuiltCollection}

\* the state once a process has constructed its pipeline
Constructed(d, use_existing, clientFails, modelFails) ==
    LET r == __init__(d, use_existing, clientFails, modelFails)
    IN  /\ self' = r.self
        /\ disk' = r.disk
        /\ last' = [Call("__init__", r.self, d) EXCEPT
                        !.use_existing = use_existing,
                        !.clientFails = clientFails,
                        !.modelFails = modelFails]
        /\ model_loads' = LoadsAfter(0, r.self)
        /\ UNCHANGED session

Init ==
    \E d \in InitialDisks, use_existing, clientFails, modelFails \in BOOLEAN :
        LET r == __init__(d, use_existing, clientFails, modelFails)
        IN  /\ self = r.self
            /\ disk = r.disk
            /\ last = [Call("__init__", r.self, d) EXCEPT
                           !.use_existing = use_existing,
                           !.clientFails = clientFails,
                           !.modelFails = modelFails]
            /\ session = InitialSession
            /\ model_loads = LoadsAfter(0, r.self)

\* the program is run again (main(), a script, a test): a new process
\* constructs its pipeline object against the same path and name, and has
\* loaded no model before
Construct ==
    \E use_existing, clientFails, modelFails \in BOOLEAN :
        Constructed(disk, use_existing, clientFails, modelFails)

\* what a read yields: one of the files, or nothing when it fails
Readable(readFails) == IF readFails THEN {EmptyDataFrame} ELSE CsvFiles

LoadData ==
    \E readFails \in BOOLEAN :
      \E csv \in Readable(readFails) :
        LET r == load_data(self, csv, readFails)
        IN  /\ self' = r.self
            /\ last' = [Call("load_data", self, disk) EXCEPT
                            !.frame = r.frame, !.raised = r.raised,
                            !.csv = csv, !.readFails = readFails]
            /\ UNCHANGED <<disk, session, model_loads>>

PreprocessData ==
    LET r == preprocess_data(self)
    IN  /\ self' = r.self
        /\ last' = [Call("preprocess_data", self, disk) EXCEPT
                        !.frame = r.frame, !.raised = r.raised]
        /\ UNCHANGED <<disk, session, model_loads>>

CreateEmbeddings ==
    \E text_column \in {"combined_text", "consumer_complaint_narrative"} :
        LET r == create_embeddings(self, text_column)
        IN  /\ last' = [Call("create_embeddings", self, disk) EXCEPT
                            !.text_column = text_column,
                            !.embeddings = r.embeddings, !.raised = r.raised]
            /\ UNCHANGED <<self, disk, session, model_loads>>

\* the arrays a caller passes to build_vector_store: what create_embeddings
\* returns for the loaded data, or an array of its own
EmbeddingInputs ==
    {create_embeddings(self, "combined_text").embeddings}
        \cup {[i \in 1..n |-> FillVector] : n \in 0..MaxEmb}

BuildVectorStore ==
    \E embeddings \in EmbeddingInputs, addFails, dupRaises \in BOOLEAN :
        LET r == build_vector_store(self, disk, embeddings, addFails, dupRaises)
        IN  /\ disk' = r.disk
            /\ last' = [Call("build_vector_store", self, disk) EXCEPT
                            !.embeddings = embeddings, !.ok = r.ok,
                            !.dupRaises = dupRaises]
            /\ UNCHANGED <<self, session, model_loads>>

Search ==
    \E query \in Queries, top_k \in TopKArgs, queryFails \in BOOLEAN :
        LET r == search_similar_complaints(self, disk, query, top_k, queryFails)
        IN  /\ last' = [Call("search_similar_complaints", self, disk) EXCEPT
                            !.query = query, !.top_k = top_k,
                            !.queryFails = queryFails,
                            !.results = r.results, !.raised = r.raised,
                            !.embedded = r.embedded, !.queried = r.queried,
                            !.hits = r.hits]
            /\ disk' = collection_after_search(disk, r.hits)
            /\ UNCHANGED <<self, session, model_loads>>

RunPipeline ==
    \E readFails, addFails, dupRaises \in BOOLEAN :
      \E csv \in Readable(readFails) :
        LET r == run_pipeline(self, disk, csv, readFails, addFails, dupRaises)
        IN  /\ self' = r.self
            /\ disk' = r.disk
            /\ last' = [Call("run_pipeline", self, disk) EXCEPT
                            !.csv = csv, !.readFails = readFails,
                            !.dupRaises = dupRaises,
                            !.embeddings = r.embeddings,
                            !.ok = r.ok, !.calls = r.calls]
            /\ UNCHANGED <<session, model_loads>>

Next ==
    \/ Construct
    \/ LoadData
    \/ PreprocessData
    \/ CreateEmbeddings
    \/ BuildVectorStore
    \/ Search

Spec == Init /\ [][Next]_vars

ShowRagSearch ==
    \E button \in {"ask", "clear", "none"}, user_query \in UserQueries,
       clientFails, modelFails, queryFails \in BOOLEAN :
        LET r == show_rag_search(session, disk, button, user_query,
                                 clientFails, modelFails, queryFails)
        IN  /\ session' = r.session
            /\ last' = [Call("show_rag_search", self, disk) EXCEPT
                            !.button = button, !.query = user_query,
                            !.clientFails = clientFails,
                            !.modelFails = modelFails,
                            !.queryFails = queryFails,
                            !.results = r.sources, !.raised = r.raised,
                            !.answer = r.answer, !.generated = r.generated,
                            !.constructed = r.constructed,
                            !.warned = r.warned,
                            !.preSession = session]
            /\ model_loads' =
                   IF r.constructed
                   THEN LoadsAfter(model_loads,
                                   __init__(disk, TRUE, clientFails, modelFails).self)
                   ELSE model_loads
            /\ UNCHANGED <<self, disk>>

\* the chat page served over a store that is there or not
NextUI ==
    \/ ShowRagSearch

SpecUI == Init /\ [][NextUI]_vars

\* the pipeline driven through run_pipeline alone, as main() drives it
NextRun ==
    \/ Construct
    \/ RunPipeline

SpecRun == Init /\ [][NextRun]_vars

-----------------------------------------------------------------------------
(* Properties of the query path                                            *)

IsSearch == last.op = "search_similar_complaints"

\* the number of results the last search asked for
RequestedK == IF last.top_k.none THEN DEFAULT_TOP_K ELSE last.top_k.value

Scores == [i \in DOMAIN last.results |-> last.results[i]["similarity_score"]]

\* C1 as stated: for every k >= 1 and every state of an initialized
\* collection, a search returns exactly min(k, collection.count()) results.
C1_TopKBoundAlways ==
    (IsSearch /\ last.preSelf.collection /\ RequestedK >= 1)
        => Len(last.results) = Min(RequestedK, count(last.preDisk))

\* C1 amended: for every k >= 1 on an initialized collection, a search
\* returns exactly min(k, collection.count()) results when the embedding
\* model is loaded and the index query does not raise, and no result
\* otherwise.
C1_TopKBound ==
    (IsSearch /\ last.preSelf.collection /\ RequestedK >= 1)
        => IF last.preSelf.embedding_model /\ ~last.queryFails
           THEN Len(last.results) = Min(RequestedK, count(last.preDisk))
           ELSE Len(last.results) = 0

\* a search for fewer results than the collection holds returned that many
C1_Witness ==
    /\ IsSearch /\ last.preSelf.collection /\ last.preSelf.embedding_model
    /\ ~last.queryFails
    /\ RequestedK = 2 /\ count(last.preDisk) = 3
    /\ Len(last.results) = 2

\* C2: every result of a search carries a similarity_score in [0, 1].
C2_ScoreRange ==
    IsSearch => \A i \in DOMAIN Scores : 0 <= Scores[i] /\ Scores[i] <= 1

\* C3: the results of a search are ordered by non-increasing
\* similarity_score, and they are the hits of the index query in the order
\* the query returned them (ascending distance), each rescored as
\* 1 - distance.
C3_RankedByScore ==
    IsSearch =>
        /\ \A i, j \in DOMAIN Scores : i < j => Scores[i] >= Scores[j]
        /\ Len(last.results) = Len(last.hits)
        /\ \A i \in DOMAIN last.hits :
              /\ last.results[i]["document"] = last.hits[i].document
              /\ Scores[i] = 1 - last.hits[i].distance
        /\ \A i, j \in DOMAIN last.hits :
              i < j => last.hits[i].distance <= last.hits[j].distance

\* a search returned results of different scores
C3_Witness ==
    /\ IsSearch
    /\ Len(last.results) >= 2
    /\ Scores[1] > Scores[Len(last.results)]

\* the last search ran on a pipeline without a collection, or on a
\* collection that exists and holds nothing
OnMissingOrEmptyIndex ==
    \/ ~last.preSelf.collection
    \/ last.preDisk.exists /\ count(last.preDisk) = 0

\* C4: a search on a pipeline whose collection is uninitialized, or created
\* and still empty, returns the empty list for any query, raises nothing and
\* changes neither the pipeline's fields nor the stored collection.
C4_EmptyOnMissingOrEmptyIndex ==
    (IsSearch /\ OnMissingOrEmptyIndex)
        => /\ last.results = <<>>
           /\ ~last.raised
           /\ self = last.preSelf
           /\ disk = last.preDisk

\* a search ran on an open, empty collection with no embedding model loaded
C4_Witness ==
    /\ IsSearch
    /\ last.preSelf.collection /\ last.preDisk.exists /\ count(last.preDisk) = 0
    /\ ~last.preSelf.embedding_model
    /\ last.results = <<>>

\* C5: a search with top_k < 1 is rejected at once with no partial work:
\* the query is not embedded and the index is not queried.
C5_RejectedWithoutWork ==
    (IsSearch /\ RequestedK < 1) => ~last.embedded /\ ~last.queried

\* C6: when the embedding model failed to load, every embedding call
\* (create_embeddings, the query embedding of a search on an open
\* collection) fails with an error instead of returning an empty result.
C6_ModelUnavailableRaised ==
    /\ (last.op = "create_embeddings" /\ ~last.preSelf.embedding_model)
           => last.raised
    /\ (IsSearch /\ last.preSelf.collection /\ ~last.preSelf.embedding_model)
           => last.raised

\* C7: no failure of the infrastructure at query time (no collection, no
\* embedding model, an index query that raises) leaves a search as an
\* exception; the search returns the empty list.
C7_DegradesToEmpty ==
    IsSearch =>
        /\ ~last.raised
        /\ (~last.preSelf.collection \/ ~last.preSelf.embedding_model
                \/ last.queryFails)
               => last.results = <<>>

\* a search on a populated collection met a failing index query
C7_Witness ==
    /\ IsSearch
    /\ last.preSelf.collection /\ last.preSelf.embedding_model
    /\ count(last.preDisk) > 0
    /\ last.queryFails
    /\ last.results = <<>> /\ ~last.raised

-----------------------------------------------------------------------------
(* Properties of the build path and of construction                        *)

IsBuild == last.op = "build_vector_store"

\* the last build reached collection.add with entries for its records
ReachedAdd ==
    /\ IsBuild
    /\ last.preSelf.collection
    /\ ~last.preSelf.complaints_data.none
    /\ HasColumn(last.preSelf.complaints_data, "combined_text")
    /\ Len(last.embeddings) > 0
    /\ Len(last.embeddings) = Len(last.preSelf.complaints_data.rows)

\* the last build added an entry under an id the collection already held
AddedExistingId ==
    /\ ReachedAdd
    /\ \E i \in DOMAIN last.embeddings : (i - 1) \in StoredIds(last.preDisk)

\* C8: adding an entry whose id is already stored is reported as an error,
\* and the collection keeps at most the first entry of that id, unchanged.
C8_DuplicateIdReported ==
    AddedExistingId =>
        /\ ~last.ok
        /\ \A i \in DOMAIN last.preDisk.entries :
              disk.entries[i] = last.preDisk.entries[i]
        /\ \A i, j \in DOMAIN disk.entries :
              disk.entries[i].id = disk.entries[j].id => i = j

\* C9: after a successful build the collection holds exactly the entries of
\* that build; nothing of an earlier build remains.
C9_RebuildReplacesIndex ==
    (IsBuild /\ last.ok)
        => disk.entries = BuildEntries(last.preSelf, last.embeddings)

IsConstruct == last.op = "__init__"

\* C10 as stated: constructing a pipeline opens the collection when it
\* exists and creates an empty one when it does not; the stored contents
\* are unchanged.
C10_OpenOrCreateAlways ==
    (IsConstruct /\ ~last.clientFails)
        => /\ self.collection
           /\ disk = IF last.preDisk.exists THEN last.preDisk
                     ELSE create_collection

\* C10 amended: constructing a pipeline opens the collection when it
\* exists, leaving its contents unchanged however often it is repeated; when
\* it does not exist, an empty one is created only with
\* use_existing_vector_store=False, and with use_existing_vector_store=True
\* nothing is created and the pipeline has no collection.
C10_OpenOrCreate ==
    (IsConstruct /\ ~last.clientFails)
        => /\ last.preDisk.exists
                  => self.collection /\ disk = last.preDisk
           /\ (~last.preDisk.exists /\ ~last.use_existing)
                  => self.collection /\ disk = create_collection
           /\ (~last.preDisk.exists /\ last.use_existing)
                  => ~self.collection /\ disk = last.preDisk

\* a pipeline was constructed again on a collection this program created
\* and filled
C10_Witness ==
    /\ IsConstruct /\ ~last.clientFails
    /\ last.preDisk.exists /\ last.preDisk.metric = "l2"
    /\ count(last.preDisk) > 0
    /\ self.collection /\ disk = last.preDisk

-----------------------------------------------------------------------------
(* Properties of run_pipeline                                              *)

IsRun == last.op = "run_pipeline"

\* the last run_pipeline went through build_vector_store
BuildRan == "build_vector_store" \in Range(last.calls)

\* C11: run_pipeline never reports success when the collection could not be
\* opened or the build step failed (no embeddings, or an entry offered under
\* an id the collection already held).
C11_SuccessMeansBuilt ==
    (IsRun /\ last.ok)
        => /\ last.preSelf.collection
           /\ BuildRan =>
                 /\ Len(last.embeddings) > 0
                 /\ \A i \in DOMAIN last.embeddings :
                        (i - 1) \notin StoredIds(last.preDisk)

\* C12: run_pipeline on a pipeline constructed with the default arguments
\* calls load_data, preprocess_data, create_embeddings and
\* build_vector_store, once each and in that order.
C12_DefaultRunCallsAllSteps ==
    (IsRun /\ last.preSelf.use_existing_vector_store)
        => last.calls = <<"load_data", "preprocess_data",
                          "create_embeddings", "build_vector_store">>

-----------------------------------------------------------------------------
(* Properties of the build steps                                           *)

\* the cell of row i of frame f in column c
Cell(f, i, c) == f.rows[i][IndexOf(f.columns, c)]

\* C13: after a successful build over n records the store holds exactly one
\* entry per record: entry i has id complaint_i, the i-th embedding passed
\* in, the i-th combined_text as document and the i-th record as metadata;
\* and a build with a number of embeddings other than n does not succeed.
C13_OneEntryPerRecord ==
    IsBuild =>
        LET data == last.preSelf.complaints_data
        IN  /\ last.ok =>
                  /\ Len(disk.entries) = Len(data.rows)
                  /\ \A i \in DOMAIN data.rows :
                        /\ disk.entries[i].id = i - 1
                        /\ disk.entries[i].embedding = last.embeddings[i]
                        /\ disk.entries[i].document = Cell(data, i, "combined_text")
                        /\ \A c \in Range(data.columns) :
                              disk.entries[i].metadata[c] = Cell(data, i, c)
            /\ (~data.none /\ Len(last.embeddings) # Len(data.rows))
                  => ~last.ok

IsPreprocess == last.op = "preprocess_data"

\* the data preprocess_data was called on, and whether any was loaded
PreData == last.preSelf.complaints_data

PreLoaded == ~PreData.none /\ ~IsEmpty(PreData)

\* a row with its missing cells replaced by the empty string
Filled(row) == [j \in DOMAIN row |-> IF row[j] = NaN THEN "" ELSE row[j]]

\* row i of the returned frame, cut to the columns of the input
Projected(i) ==
    [j \in DOMAIN PreData.columns |-> Cell(last.frame, i, PreData.columns[j])]

\* C14: the record set preprocess_data returns, and stores as
\* complaints_data, holds no two identical rows, and every distinct input
\* row (missing cells replaced by the empty string) appears in it exactly
\* once.
C14_DuplicatesRemoved ==
    (IsPreprocess /\ PreLoaded) =>
        /\ self.complaints_data = last.frame
        /\ \A i, j \in DOMAIN last.frame.rows :
              last.frame.rows[i] = last.frame.rows[j] => i = j
        /\ {Projected(i) : i \in DOMAIN last.frame.rows}
               = {Filled(PreData.rows[i]) : i \in DOMAIN PreData.rows}
        /\ Len(last.frame.rows)
               = Cardinality({Filled(PreData.rows[i]) : i \in DOMAIN PreData.rows})

\* preprocess_data ran on data with a repeated row and returned fewer rows
C14_Witness ==
    /\ IsPreprocess /\ PreLoaded
    /\ \E i, j \in DOMAIN PreData.rows : i < j /\ PreData.rows[i] = PreData.rows[j]
    /\ Len(last.frame.rows) < Len(PreData.rows)

\* the combined_text the precedence rule gives row i of frame f: the
\* narrative; else company, product, issue, those present, joined by single
\* spaces in that order; else the first column
ExpectedText(f, i) ==
    IF HasColumn(f, "consumer_complaint_narrative")
    THEN Cell(f, i, "consumer_complaint_narrative")
    ELSE IF \E c \in {"company", "product", "issue"} : HasColumn(f, c)
    THEN LET hasC == HasColumn(f, "company")
             hasP == HasColumn(f, "product")
             hasI == HasColumn(f, "issue")
             t1 == IF hasC THEN Cell(f, i, "company") ELSE ""
             t2 == IF hasP
                   THEN (IF hasC THEN t1 \o " " ELSE "") \o Cell(f, i, "product")
                   ELSE t1
         IN  IF hasI
             THEN (IF hasC \/ hasP THEN t2 \o " " ELSE "") \o Cell(f, i, "issue")
             ELSE t2
    ELSE f.rows[i][1]

\* C15: preprocess_data sets combined_text of every record by strict
\* precedence: the narrative column if present; otherwise the space-joined
\* values of those of company, product, issue that are present, in that
\* order; otherwise the value of the first column.
C15_CombinedTextPrecedence ==
    (IsPreprocess /\ PreLoaded) =>
        /\ HasColumn(last.frame, "combined_text")
        /\ \A i \in DOMAIN last.frame.rows :
              Cell(last.frame, i, "combined_text") = ExpectedText(last.frame, i)

\* preprocess_data ran on data with a narrative column next to a company
\* column and took the narrative
C15_Witness ==
    /\ IsPreprocess /\ PreLoaded
    /\ HasColumn(last.frame, "consumer_complaint_narrative")
    /\ HasColumn(last.frame, "company")
    /\ \E i \in DOMAIN last.frame.rows :
          /\ Cell(last.frame, i, "combined_text")
                 = Cell(last.frame, i, "consumer_complaint_narrative")
          /\ Cell(last.frame, i, "combined_text") # Cell(last.frame, i, "company")

\* C16: preprocess_data with no records loaded (complaints_data None or
\* empty) returns an empty record set, raises nothing and leaves
\* complaints_data as it was.
C16_NothingLoaded ==
    (IsPreprocess /\ ~PreLoaded) =>
        /\ IsEmpty(last.frame)
        /\ ~last.raised
        /\ self.complaints_data = PreData

\* preprocess_data ran on a loaded frame that has a header and no rows
C16_Witness ==
    /\ IsPreprocess
    /\ ~PreData.none /\ Len(PreData.columns) > 0 /\ Len(PreData.rows) = 0
    /\ IsEmpty(last.frame)

IsLoad == last.op = "load_data"

\* C17: a load_data whose read fails returns an empty record set, raises
\* nothing and leaves complaints_data as it was; one whose read succeeds
\* returns what was read and stores it as complaints_data.
C17_LoadOutcome ==
    IsLoad =>
        /\ ~last.raised
        /\ IF last.readFails
           THEN /\ IsEmpty(last.frame)
                /\ self.complaints_data = last.preSelf.complaints_data
           ELSE /\ last.frame = last.csv
                /\ self.complaints_data = last.csv

\* a read failed on a pipeline that already held loaded records
C17_Witness ==
    /\ IsLoad /\ last.readFails
    /\ ~last.preSelf.complaints_data.none
    /\ Len(last.preSelf.complaints_data.rows) > 0
    /\ self.complaints_data = last.preSelf.complaints_data

IsCreate == last.op = "create_embeddings"

\* C18: create_embeddings() with the default text column, on loaded data
\* that has a consumer_complaint_narrative column and was not preprocessed,
\* returns one embedding per record in record order; on loaded data without
\* a text column it returns an empty array and raises nothing.
C18_DefaultColumnEmbedsNarrative ==
    (IsCreate /\ last.text_column = "combined_text"
         /\ last.preSelf.embedding_model /\ PreLoaded
         /\ ~HasColumn(PreData, "combined_text"))
        => IF HasColumn(PreData, "consumer_complaint_narrative")
           THEN /\ Len(last.embeddings) = Len(PreData.rows)
                /\ \A i \in DOMAIN PreData.rows :
                      last.embeddings[i]
                          = Encode(Cell(PreData, i, "consumer_complaint_narrative"))
           ELSE last.embeddings = <<>> /\ ~last.raised

-----------------------------------------------------------------------------
(* Properties of the chat page                                             *)

\* the last run of the page was an Ask with a non-blank question
IsAsk ==
    /\ last.op = "show_rag_search"
    /\ last.button = "ask"
    /\ strip(last.query) # ""

\* the retrieval of the last Ask gave no result, or only empty source texts
NoContext == \A i \in DOMAIN last.results : last.results[i]["document"] = ""

\* C19: when retrieval yields no results or only empty source texts, the
\* answer the page obtains is exactly the fixed no-context string, and the
\* text-generation model is not invoked.
C19_NoContextFallback ==
    (IsAsk /\ NoContext)
        => /\ ~last.raised
           /\ last.answer = "No relevant context found to answer the question."
           /\ ~last.generated

\* C20: answer generation never crashes its caller: no exception reaches
\* the Ask handler of the page.
C20_AskNeverRaises ==
    IsAsk => ~last.raised


-----------------------------------------------------------------------------
(* Properties of the process, the chat page and the frame of the calls     *)

\* C21: over any sequence of queries served in one process, repeated Ask
\* submissions included, the embedding model is loaded at most once
C21_ModelLoadedAtMostOnce == model_loads <= 1

\* Ask pressed with a question that is empty or blanks only
IsBlankAsk ==
    /\ last.op = "show_rag_search"
    /\ last.button = "ask"
    /\ strip(last.query) = ""

\* C22: a blank question submitted with Ask is rejected: a warning is shown,
\* no pipeline is constructed, no search and no generation run, and
\* chat_history, last_answer and last_sources are as they were
C22_BlankQueryRejected ==
    IsBlankAsk =>
        /\ last.warned
        /\ ~last.constructed
        /\ ~last.generated
        /\ last.results = <<>>
        /\ session = last.preSession

\* the metadata keys a search sets on what it returns
ResultKeys == {"similarity_score", "document"}

\* C23: search_similar_complaints only reads: after the call the collection
\* (ids, embeddings, metadata, documents, count) and complaints_data are what
\* they were, and no stored metadata carries similarity_score or document
C23_SearchReadOnly ==
    IsSearch =>
        /\ disk = last.preDisk
        /\ count(disk) = count(last.preDisk)
        /\ self.complaints_data = last.preSelf.complaints_data
        /\ \A i \in DOMAIN disk.entries :
               DOMAIN disk.entries[i].metadata \cap ResultKeys = {}

\* a search that returned stored entries, each a mapping with the two keys set
C23_Witness ==
    /\ IsSearch
    /\ Len(last.results) >= 2
    /\ \A i \in DOMAIN last.results : ResultKeys \subseteq DOMAIN last.results[i]

IsSecondPreprocess ==
    /\ IsPreprocess
    /\ PreLoaded
    /\ HasColumn(PreData, "combined_text")

\* C25: preprocess_data applied to data it has already preprocessed leaves
\* the same rows, fields and combined_text values, in each of the three
\* combined_text cases
C25_PreprocessIdempotent ==
    /\ IsSecondPreprocess =>
           /\ self.complaints_data = PreData
           /\ last.frame = PreData
    /\ (IsPreprocess /\ PreLoaded) =>
           preprocess_data(self).frame = self.complaints_data

\* a second preprocess_data in the fields case, on records that had a missing
\* cell and a duplicate row when loaded
C25_Witness ==
    /\ IsSecondPreprocess
    /\ ~HasColumn(PreData, "consumer_complaint_narrative")
    /\ HasColumn(PreData, "company")
    /\ Len(PreData.rows) < Len(FieldsCsv.rows)
    /\ \E i \in DOMAIN PreData.rows : Cell(PreData, i, "product") = ""

\* Ask pressed with a question that is not blank
IsNonBlankAsk ==
    /\ last.op = "show_rag_search"
    /\ last.button = "ask"
    /\ strip(last.query) # ""

=============================================================================
